---- MODULE Spec2Model ----
(***************************************************************************)
(* Model of the coverage-report renderer of .dagger/src/ci/coverage.py.    *)
(*                                                                         *)
(* Python strings are TLA+ strings (sequences of characters); the model    *)
(* uses Len, SubSeq and \o on them.  An XML document is modelled by the    *)
(* element tree the parser would build from it, or by MALFORMED when the   *)
(* parser would reject the text.  A Python float is an exact rational with *)
(* a sign bit (see the section on floats).  A call that can raise returns  *)
(* Return(v) or Raise(e).                                                  *)
(***************************************************************************)
EXTENDS Integers, Sequences, FiniteSets, TLC

VARIABLES
  pc,               \* "start" before the call, "done" once it returned,
                    \* "raised" once it ended with an exception
  call,             \* the function called
  head_xml,         \* argument head_xml of render_coverage_markdown
  base_xml,         \* argument base_xml (None when absent)
  base_requested,   \* argument base_requested
  changed_files,    \* argument changed_files
  arg,              \* the argument of a helper called on its own
  ret,              \* the value the call returned
  exc               \* the exception the call ended with ("" when none)

vars == <<pc, call, head_xml, base_xml, base_requested, changed_files, arg, ret, exc>>

-----------------------------------------------------------------------------
(* Python values                                                           *)

None == [none |-> TRUE]
Some(v) == [none |-> FALSE, val |-> v]

Return(v) == [exc |-> "", val |-> v]
Raise(e) == [exc |-> e]

-----------------------------------------------------------------------------
(* str: the methods of Python's str the program uses                       *)

Char(s, i) == SubSeq(s, i, i)

\* s[i:] with a 0-based i in 0..len(s)
SliceFrom(s, i) == SubSeq(s, i + 1, Len(s))

\* The characters str.strip() removes, among those a TLA+ string can hold.
WHITESPACE == {" ", "\t", "\n", "\r", "\f"}

\* The line boundaries of str.splitlines(), among the same characters.
LINE_BREAKS == {"\n", "\r", "\f"}

RECURSIVE lstrip_index(_, _, _)
lstrip_index(s, chars, i) ==
  IF i > Len(s) THEN i
  ELSE IF Char(s, i) \in chars THEN lstrip_index(s, chars, i + 1)
  ELSE i

RECURSIVE rstrip_index(_, _, _)
rstrip_index(s, chars, j) ==
  IF j < 1 THEN j
  ELSE IF Char(s, j) \in chars THEN rstrip_index(s, chars, j - 1)
  ELSE j

\* str.lstrip(chars): removes every leading character that is in chars
lstrip(s, chars) == SubSeq(s, lstrip_index(s, chars, 1), Len(s))

\* str.rstrip(chars): removes every trailing character that is in chars
rstrip(s, chars) == SubSeq(s, 1, rstrip_index(s, chars, Len(s)))

\* str.strip(): removes leading and trailing whitespace
strip(s) == rstrip(lstrip(s, WHITESPACE), WHITESPACE)

\* A variant of str.find that looks for sub at the start of s only.
find_at_start(s, sub) ==
  IF Len(sub) <= Len(s) /\ SubSeq(s, 1, Len(sub)) = sub THEN 0 ELSE -1

RECURSIVE find_from(_, _, _)
find_from(s, sub, i) ==
  IF i + Len(sub) - 1 > Len(s) THEN -1
  ELSE IF SubSeq(s, i, i + Len(sub) - 1) = sub THEN i - 1
  ELSE find_from(s, sub, i + 1)

\* str.find(sub): 0-based index of the leftmost occurrence, -1 when none
find(s, sub) == find_from(s, sub, 1)

\* str.replace(old, new) for a one-character old; idx is s.find(old)
RECURSIVE replace(_, _, _)
replace_at(s, old, new, idx) ==
  IF idx = -1 THEN s
  ELSE SubSeq(s, 1, idx) \o new \o replace(SliceFrom(s, idx + 1), old, new)

replace(s, old, new) == replace_at(s, old, new, find(s, old))

RECURSIVE next_break(_, _)
next_break(s, i) ==
  IF i > Len(s) THEN i
  ELSE IF Char(s, i) \in LINE_BREAKS THEN i
  ELSE next_break(s, i + 1)

RECURSIVE prev_break(_, _)
prev_break(s, j) ==
  IF j < 1 THEN j
  ELSE IF Char(s, j) \in LINE_BREAKS THEN j
  ELSE prev_break(s, j - 1)

\* The last character of the line break that starts at b ("\r\n" is one
\* break).
break_end(s, b) ==
  IF b < Len(s) /\ Char(s, b) = "\r" /\ Char(s, b + 1) = "\n" THEN b + 1 ELSE b

\* The line that starts at start and ends before the break at b, then the
\* lines after the break.
RECURSIVE splitlines_from(_, _)
split_at(s, start, b) ==
  <<SubSeq(s, start, b - 1)>> \o splitlines_from(s, break_end(s, b) + 1)

\* The lines of s from start on, scanned left to right.
splitlines_from(s, start) ==
  IF start > Len(s) THEN <<>> ELSE split_at(s, start, next_break(s, start))

\* Texts up to this length are scanned left to right; a longer text is cut
\* after a line break near its middle and its two parts are split on their
\* own, which gives the same lines.
SCAN_LENGTH == 16

\* str.splitlines(): the lines without their line breaks; no last empty line
RECURSIVE splitlines(_)
split_after(s, e) ==
  splitlines(SubSeq(s, 1, e)) \o splitlines(SubSeq(s, e + 1, Len(s)))

\* after is the end of the first break in the second half, before the last
\* break of the first half (0 when none)
split_near_middle(s, after, before) ==
  IF after < Len(s) THEN split_after(s, after)
  ELSE IF before >= 1 THEN split_after(s, before)
  ELSE splitlines_from(s, 1)

splitlines(s) ==
  IF Len(s) <= SCAN_LENGTH THEN splitlines_from(s, 1)
  ELSE split_near_middle(s, break_end(s, next_break(s, (Len(s) \div 2) + 1)),
                         prev_break(s, Len(s) \div 2))

\* sep.join(lines)
RECURSIVE join(_, _)
join(sep, lines) ==
  IF lines = <<>> THEN ""
  ELSE IF Len(lines) = 1 THEN lines[1]
  ELSE join(sep, SubSeq(lines, 1, Len(lines) \div 2)) \o sep
         \o join(sep, SubSeq(lines, (Len(lines) \div 2) + 1, Len(lines)))

\* The printable ASCII characters in code-point order: 32..95 and 97..126.
\* (U+0060 is left out: the TLA+ lexer cannot read it inside a string.)
ASCII_32 == " !\"#$%&'()*+,-./0123456789:;<=>?@ABCDEFGHIJKLMNOPQRSTUVWXYZ[\\]^_"
ASCII_97 == "abcdefghijklmnopqrstuvwxyz{|}~"

\* the code point of the printable ASCII character c
code_point(c) ==
  IF find(ASCII_97, c) # -1 THEN 97 + find(ASCII_97, c) ELSE 32 + find(ASCII_32, c)

\* ord(c), as a table over the characters a string of the model can hold
ORD ==
  [c \in {Char(ASCII_32, i) : i \in 1..Len(ASCII_32)}
           \cup {Char(ASCII_97, i) : i \in 1..Len(ASCII_97)}
           \cup {"\t", "\n", "\f", "\r"} |->
     IF c = "\t" THEN 9
     ELSE IF c = "\n" THEN 10
     ELSE IF c = "\f" THEN 12
     ELSE IF c = "\r" THEN 13
     ELSE code_point(c)]

ord(c) == ORD[c]

RECURSIVE str_lt_from(_, _, _)
str_lt_from(a, b, i) ==
  IF i > Len(b) THEN FALSE
  ELSE IF i > Len(a) THEN TRUE
  ELSE IF Char(a, i) = Char(b, i) THEN str_lt_from(a, b, i + 1)
  ELSE ord(Char(a, i)) < ord(Char(b, i))

\* a < b on str: lexicographic by code point
str_lt(a, b) == str_lt_from(a, b, 1)

DIGITS == "0123456789"
DIGIT_CHARS == {"0", "1", "2", "3", "4", "5", "6", "7", "8", "9"}

RECURSIVE str_of_nat(_)
str_of_nat(n) ==
  IF n < 10 THEN Char(DIGITS, n + 1)
  ELSE str_of_nat(n \div 10) \o Char(DIGITS, (n % 10) + 1)

\* str(n) for an int
str_of_int(n) == IF n < 0 THEN "-" \o str_of_nat(-n) ELSE str_of_nat(n)

\* True when s is a decimal literal int() accepts after the sign: digits,
\* with single underscores allowed between digits.
RECURSIVE is_int_body(_, _)
is_int_body(s, i) ==
  IF i > Len(s) THEN TRUE
  ELSE IF Char(s, i) \in DIGIT_CHARS THEN is_int_body(s, i + 1)
  ELSE /\ Char(s, i) = "_"
       /\ i > 1 /\ i < Len(s)
       /\ Char(s, i - 1) \in DIGIT_CHARS
       /\ Char(s, i + 1) \in DIGIT_CHARS
       /\ is_int_body(s, i + 1)

RECURSIVE nat_of_str(_, _, _)
nat_of_str(s, i, acc) ==
  IF i > Len(s) THEN acc
  ELSE IF Char(s, i) = "_" THEN nat_of_str(s, i + 1, acc)
  ELSE nat_of_str(s, i + 1, 10 * acc + find(DIGITS, Char(s, i)))

\* the literal after its sign
int_of_body(body, sign) ==
  IF body = "" \/ ~is_int_body(body, 1) THEN Raise("ValueError")
  ELSE Return(sign * nat_of_str(body, 1, 0))

\* the literal without the surrounding whitespace
int_of_stripped(t) ==
  IF t # "" /\ Char(t, 1) = "-" THEN int_of_body(SliceFrom(t, 1), -1)
  ELSE IF t # "" /\ Char(t, 1) = "+" THEN int_of_body(SliceFrom(t, 1), 1)
  ELSE int_of_body(t, 1)

\* int(s) for a str s: surrounding whitespace and a sign are accepted;
\* anything that is not a decimal literal raises ValueError.
int_of_str(s) == int_of_stripped(strip(s))

\* A variant of sorted that leaves the order as it is.
unsorted(seq) == seq

\* the order of sorted(..., key=lambda t: t[0]) on two tuples
first_lt(x, y) == str_lt(x[1], y[1])

\* sorted(seq, key=lambda t: t[0]): a stable sort of tuples by their first
\* component, a str.  (SortSeq is an insertion sort that moves an element
\* left only past elements it is strictly less than: it is stable.)
sorted_by_first(seq) == SortSeq(seq, first_lt)

-----------------------------------------------------------------------------
(* float: an exact rational num/den with a sign bit (so that -0.0 exists). *)
(* The program's floats are quotients and differences of small integers;   *)
(* the rational agrees with the IEEE double in sign, in comparisons with 0 *)
(* and in its two-decimal rendering as long as no line total is a multiple *)
(* of 32, which is when a quotient can lie on a rounding tie that the      *)
(* double does not represent.                                              *)

Float(neg, num, den) == [neg |-> neg, num |-> num, den |-> den]

ZERO == Float(FALSE, 0, 1)

\* float(n) for an int n
float_of_int(n) == IF n < 0 THEN Float(TRUE, -n, 1) ELSE Float(FALSE, n, 1)

signed_num(x) == IF x.neg THEN -x.num ELSE x.num

\* x * y
float_mul(x, y) == Float(x.neg # y.neg, x.num * y.num, x.den * y.den)

\* x / y for y # 0
float_div(x, y) == Float(x.neg # y.neg, x.num * y.den, x.den * y.num)

\* the float n/d for a signed n; zero_neg is the sign of an exact zero
float_signed(n, d, zero_neg) ==
  IF n < 0 THEN Float(TRUE, -n, d)
  ELSE IF n > 0 THEN Float(FALSE, n, d)
  ELSE Float(zero_neg, 0, d)

\* x - y; an exact zero is +0.0 except for (-0.0) - (+0.0)
float_sub(x, y) ==
  float_signed(signed_num(x) * y.den - signed_num(y) * x.den, x.den * y.den,
               x.neg /\ x.num = 0 /\ ~y.neg /\ y.num = 0)

\* A variant that holds of no zero: x > 0.
float_gt_zero(x) == ~x.neg /\ x.num # 0

\* x >= 0 (true of -0.0)
float_ge_zero(x) == ~x.neg \/ x.num = 0

\* n/d rounded to the nearest integer, ties to even
round_half_even(n, d) ==
  IF 2 * (n % d) > d THEN (n \div d) + 1
  ELSE IF 2 * (n % d) < d THEN n \div d
  ELSE IF (n \div d) % 2 = 0 THEN n \div d ELSE (n \div d) + 1

two_digits(n) == Char(DIGITS, (n \div 10) + 1) \o Char(DIGITS, (n % 10) + 1)

\* the digits of h hundredths
fixed_2(h) == str_of_nat(h \div 100) \o "." \o two_digits(h % 100)

\* f"{x:.2f}" (plus = FALSE) and f"{x:+.2f}" (plus = TRUE)
format_2f(x, plus) ==
  (IF x.neg THEN "-" ELSE IF plus THEN "+" ELSE "")
    \o fixed_2(round_half_even(x.num * 100, x.den))

-----------------------------------------------------------------------------
(* xml.etree.ElementTree                                                   *)

\* An element: its tag, its attributes (a function from names to str) and
\* its child elements in document order.
Elem(tag, attrib, children) ==
  [tag |-> tag, attrib |-> attrib, children |-> children]

\* The text of a document the parser rejects.
MALFORMED == [wellformed |-> FALSE]

\* The text of a well-formed document with the given root element.
Xml(root) == [wellformed |-> TRUE, root |-> root]

\* ET.fromstring(text)
fromstring(text) ==
  IF text.wellformed THEN Return(text.root) ELSE Raise("ParseError")

\* elem.findall(tag): the children with that tag, in document order
findall(elem, tag) == SelectSeq(elem.children, LAMBDA c: c.tag = tag)

\* elem.get(name)
get(elem, name) ==
  IF name \in DOMAIN elem.attrib THEN Some(elem.attrib[name]) ELSE None

\* elem.get(name) or ""
get_or_empty(elem, name) ==
  IF name \in DOMAIN elem.attrib THEN elem.attrib[name] ELSE ""

-----------------------------------------------------------------------------
(* coverage.py                                                             *)

COVERAGE_COMMENT_MARKER == "<!-- ci-pipelines:coverage-comment -->"
MAX_CHANGED_FILES_ROWS == 50

LineCounts(missed, covered) == [missed |-> missed, covered |-> covered]

\* LineCounts.total
total(counts) == counts.missed + counts.covered

\* LineCounts.pct
pct(counts) ==
  IF total(counts) = 0 THEN ZERO
  ELSE float_div(float_mul(float_of_int(counts.covered), float_of_int(100)),
                 float_of_int(total(counts)))

\* int(value or 0) for value = counter.get(name) or ""
int_or_zero(value) == IF value = "" THEN Return(0) ELSE int_of_str(value)

\* LineCounts(missed=missed, covered=covered), or the ValueError of the
\* first int() that raised
counts_of(missed, covered) ==
  IF missed.exc # "" THEN missed
  ELSE IF covered.exc # "" THEN covered
  ELSE Return(LineCounts(missed.val, covered.val))

RECURSIVE line_counts_from(_, _)
line_counts_from(counters, i) ==
  IF i > Len(counters) THEN Return(LineCounts(0, 0))
  ELSE IF get(counters[i], "type") = Some("LINE")
       THEN counts_of(int_or_zero(get_or_empty(counters[i], "missed")),
                      int_or_zero(get_or_empty(counters[i], "covered")))
       ELSE line_counts_from(counters, i + 1)

line_counts(elem) == line_counts_from(findall(elem, "counter"), 1)

\* The (pkg_name, sourcefile) pairs the two loops of file_line_counters
\* visit, in order.
RECURSIVE sourcefiles_of(_, _)
sourcefiles_of(packages, i) ==
  IF i > Len(packages) THEN <<>>
  ELSE [j \in 1..Len(findall(packages[i], "sourcefile")) |->
          <<get_or_empty(packages[i], "name"), findall(packages[i], "sourcefile")[j]>>]
         \o sourcefiles_of(packages, i + 1)

\* key = f"{pkg_name}/{filename}" if pkg_name else filename
file_key(pkg_name, filename) ==
  IF pkg_name # "" THEN pkg_name \o "/" \o filename ELSE filename

\* counters[key] = counts, then the next sourcefile; counts may have raised
RECURSIVE file_line_counters_from(_, _, _)
\* A variant that leaves a file without lines out of the index.
file_counted_if_lines(visits, i, counters, key, counts) ==
  IF counts.exc # "" THEN counts
  ELSE IF total(counts.val) = 0 THEN file_line_counters_from(visits, i + 1, counters)
  ELSE file_line_counters_from(visits, i + 1, (key :> counts.val) @@ counters)

file_counted(visits, i, counters, key, counts) ==
  IF counts.exc # "" THEN counts
  ELSE file_line_counters_from(visits, i + 1, (key :> counts.val) @@ counters)

file_line_counters_from(visits, i, counters) ==
  IF i > Len(visits) THEN Return(counters)
  ELSE IF get_or_empty(visits[i][2], "name") = ""
       THEN file_line_counters_from(visits, i + 1, counters)
       ELSE file_counted(visits, i, counters,
                         file_key(visits[i][1], get_or_empty(visits[i][2], "name")),
                         line_counts(visits[i][2]))

EMPTY_DICT == [k \in {} |-> None]

file_line_counters(root) ==
  file_line_counters_from(sourcefiles_of(findall(root, "package"), 1), 1, EMPTY_DICT)

\* dict.get(key)
dict_get(d, key) == IF key \in DOMAIN d THEN Some(d[key]) ELSE None

markers == <<"src/main/java/", "src/main/kotlin/", "src/test/java/", "src/test/kotlin/">>

\* the loop over markers from the i-th on; idx is normalized.find(markers[i])
RECURSIVE key_after_marker(_, _)
\* A variant of the loop body that keeps the marker in the key.
key_from_marker(normalized, i, idx) ==
  IF idx # -1 THEN Some(SliceFrom(normalized, idx))
  ELSE key_after_marker(normalized, i + 1)

key_at(normalized, i, idx) ==
  IF idx # -1 THEN Some(SliceFrom(normalized, idx + Len(markers[i])))
  ELSE key_after_marker(normalized, i + 1)

key_after_marker(normalized, i) ==
  IF i > Len(markers) THEN None
  ELSE key_at(normalized, i, find(normalized, markers[i]))

\* lines 48-61, from normalized
key_of_normalized(normalized) ==
  IF normalized = "" THEN None ELSE key_after_marker(normalized, 1)

changed_path_to_jacoco_key(path) ==
  key_of_normalized(lstrip(strip(path), {".", "/"}))

\* the package counted: skipped when its total is 0, else appended;
\* counts may have raised
RECURSIVE package_rows_from(_, _, _)
\* A variant that appends a row for a package whose total is 0 as well.
package_counted_all(pkgs, i, packages, counts) ==
  IF counts.exc # "" THEN counts
  ELSE package_rows_from(pkgs, i + 1,
         Append(packages, <<replace(get_or_empty(pkgs[i], "name"), "/", "."),
                            pct(counts.val), counts.val.covered, total(counts.val)>>))

package_counted(pkgs, i, packages, counts) ==
  IF counts.exc # "" THEN counts
  ELSE IF total(counts.val) = 0 THEN package_rows_from(pkgs, i + 1, packages)
  ELSE package_rows_from(pkgs, i + 1,
         Append(packages, <<replace(get_or_empty(pkgs[i], "name"), "/", "."),
                            pct(counts.val), counts.val.covered, total(counts.val)>>))

package_rows_from(pkgs, i, packages) ==
  IF i > Len(pkgs) THEN Return(sorted_by_first(packages))
  ELSE package_counted(pkgs, i, packages, line_counts(pkgs[i]))

package_rows(root) == package_rows_from(findall(root, "package"), 1, <<>>)

\* Stand-ins for characters the TLA+ lexer cannot read inside a string:
\* U+0060 and the four emoji of the rendered text.
BACKTICK == "'"
GREEN_CIRCLE == ":green_circle:"
RED_CIRCLE == ":red_circle:"
CHANGED_FILES_HEADING == "## :mag: Changed files coverage"
COVERAGE_DETAILS_HEADING == "## :umbrella: Coverage details"

RECURSIVE render_package_table_from(_, _)
render_package_table_from(packages, i) ==
  IF i > Len(packages) THEN <<>>
  ELSE <<"| " \o BACKTICK \o packages[i][1] \o BACKTICK \o " | "
           \o format_2f(packages[i][2], FALSE) \o "% ("
           \o str_of_int(packages[i][3]) \o "/" \o str_of_int(packages[i][4])
           \o ") |">>
         \o render_package_table_from(packages, i + 1)

render_package_table(packages) ==
  <<"| Package | Line coverage |", "| ------- | ------------- |">>
    \o render_package_table_from(packages, 1)

\* the indicator of a delta
indicator_of(delta) == IF float_ge_zero(delta) THEN GREEN_CIRCLE ELSE RED_CIRCLE

\* f"{delta:+.2f}%"
delta_label_of(delta) == format_2f(delta, TRUE) \o "%"

\* (total_delta_indicator, total_delta_label) of total_delta
total_delta_pair(total_delta) == <<indicator_of(total_delta), delta_label_of(total_delta)>>

_render_total_delta(total_pct, base_total_pct) ==
  total_delta_pair(float_sub(total_pct, base_total_pct))

\* f"{head_pct:.2f}% ({delta_indicator} {delta_label})" of delta
file_delta_text(head_pct, delta) ==
  format_2f(head_pct, FALSE) \o "% (" \o indicator_of(delta) \o " "
    \o delta_label_of(delta) \o ")"

_render_file_delta(head_pct, base_pct) ==
  file_delta_text(head_pct, float_sub(head_pct, base_pct))

\* [line.strip() for line in lines[lo..hi] if line.strip()]
\* (the comprehension over a range is the two comprehensions over its halves)
RECURSIVE stripped_lines(_, _, _)
stripped_lines(lines, lo, hi) ==
  IF lo > hi THEN <<>>
  ELSE IF lo = hi
       THEN IF strip(lines[lo]) # "" THEN <<strip(lines[lo])>> ELSE <<>>
       ELSE stripped_lines(lines, lo, (lo + hi) \div 2)
              \o stripped_lines(lines, ((lo + hi) \div 2) + 1, hi)

\* lines 116-118 for one path; key is changed_path_to_jacoco_key(path)
changed_key(path, key) == IF ~key.none THEN <<<<path, key.val>>>> ELSE <<>>

\* the loop that fills changed_keys with (path, key) pairs, over changed[lo..hi]
RECURSIVE changed_keys_of(_, _, _)
changed_keys_of(changed, lo, hi) ==
  IF lo > hi THEN <<>>
  ELSE IF lo = hi THEN changed_key(changed[lo], changed_path_to_jacoco_key(changed[lo]))
  ELSE changed_keys_of(changed, lo, (lo + hi) \div 2)
         \o changed_keys_of(changed, ((lo + hi) \div 2) + 1, hi)

\* changed and changed_keys of lines 113-118
changed_of(p_changed_files) ==
  stripped_lines(splitlines(p_changed_files), 1, Len(splitlines(p_changed_files)))

changed_keys(changed) == changed_keys_of(changed, 1, Len(changed))

\* lines 129-131; base_counts is None or Some(counts)
coverage_label_of(head_label, base_counts) ==
  IF ~base_counts.none THEN _render_file_delta(head_label, pct(base_counts.val))
  ELSE format_2f(head_label, FALSE) \o "% (n/a)"

\* line 133
row_of(original_path, coverage_label) ==
  "| " \o BACKTICK \o original_path \o BACKTICK \o " | " \o coverage_label \o " |"

\* lines 122-133 for one (original_path, key) pair: its row, or nothing
row_for(pair, head_files, base_files) ==
  IF dict_get(head_files, pair[2]).none THEN <<>>
  ELSE <<row_of(pair[1], coverage_label_of(pct(head_files[pair[2]]),
                                           dict_get(base_files, pair[2])))>>

\* the loop that fills rows from the sorted (original_path, key) pairs, over
\* pairs[lo..hi]
RECURSIVE rows_of(_, _, _, _, _)
rows_of(pairs, lo, hi, head_files, base_files) ==
  IF lo > hi THEN <<>>
  ELSE IF lo = hi THEN row_for(pairs[lo], head_files, base_files)
  ELSE rows_of(pairs, lo, (lo + hi) \div 2, head_files, base_files)
         \o rows_of(pairs, ((lo + hi) \div 2) + 1, hi, head_files, base_files)

\* rows of lines 120-133, before the cap
rows_from(pairs, head_files, base_files) ==
  rows_of(pairs, 1, Len(pairs), head_files, base_files)

\* A variant of the cap that keeps one row more.
capped_late(rows) ==
  IF Len(rows) > MAX_CHANGED_FILES_ROWS
  THEN SubSeq(rows, 1, MAX_CHANGED_FILES_ROWS + 1) ELSE rows

\* rows after the cap of lines 136-138
capped(rows) ==
  IF Len(rows) > MAX_CHANGED_FILES_ROWS
  THEN SubSeq(rows, 1, MAX_CHANGED_FILES_ROWS) ELSE rows

\* omitted_rows
omitted(rows) ==
  IF Len(rows) > MAX_CHANGED_FILES_ROWS
  THEN Len(rows) - MAX_CHANGED_FILES_ROWS ELSE 0

\* line 151; total_delta is (total_delta_indicator, total_delta_label)
total_line(total_pct, total_delta) ==
  "Total coverage: " \o format_2f(total_pct, FALSE) \o "% ("
    \o (IF total_delta[1] # "" THEN total_delta[1] \o " " ELSE "")
    \o total_delta[2] \o ")"

\* lines 155-160
table_of(rows) ==
  IF rows # <<>>
  THEN <<"| File | Line coverage |", "| ---- | ------------- |">> \o rows
  ELSE <<>>

\* lines 162-166
truncation_of(omitted_rows) ==
  IF omitted_rows # 0
  THEN <<"", "_Table truncated: " \o str_of_int(omitted_rows) \o " more files omitted._">>
  ELSE <<>>

\* lines 135-168: the lines of the section, from the rows before the cap
section_lines(all_rows, total_pct, p_base_total_pct) ==
  <<"", CHANGED_FILES_HEADING, "",
    total_line(total_pct,
               IF ~p_base_total_pct.none
               THEN _render_total_delta(total_pct, p_base_total_pct.val)
               ELSE <<"", "n/a">>),
    "">>
    \o table_of(capped(all_rows))
    \o truncation_of(omitted(all_rows))

\* lines 113-133: the rows before the cap
all_rows_of(head_files, base_files, p_changed_files) ==
  rows_from(sorted_by_first(changed_keys(changed_of(p_changed_files))),
            head_files, base_files)

\* lines 113-168, once head_files and base_files are built (or have raised)
section_from_files(head_files, base_files, p_changed_files, total_pct, p_base_total_pct) ==
  IF head_files.exc # "" THEN head_files
  ELSE IF base_files.exc # "" THEN base_files
  ELSE Return(section_lines(all_rows_of(head_files.val, base_files.val, p_changed_files),
                            total_pct, p_base_total_pct))

\* base_root and base_total_pct are Optional: None or Some(value)
render_changed_files_section(p_head_root, p_base_root, p_changed_files, total_pct, p_base_total_pct) ==
  section_from_files(file_line_counters(p_head_root),
                     IF ~p_base_root.none THEN file_line_counters(p_base_root.val)
                     ELSE Return(EMPTY_DICT),
                     p_changed_files, total_pct, p_base_total_pct)

\* line 189: base_total_pct from the counts of base_root (which may have raised)
base_counted(p_base_root, counts) ==
  IF counts.exc # "" THEN counts
  ELSE Return([root |-> Some(p_base_root), total_pct |-> Some(pct(counts.val))])

\* lines 188-189, from the outcome of ET.fromstring(base_xml)
base_parsed(parsed) ==
  IF parsed.exc # "" THEN parsed ELSE base_counted(parsed.val, line_counts(parsed.val))

\* lines 184-189: base_root and base_total_pct (base_xml is None or Some(text))
base_of(p_base_xml) ==
  IF p_base_xml.none THEN Return([root |-> None, total_pct |-> None])
  ELSE base_parsed(fromstring(p_base_xml.val))

\* lines 191-197, once the base is known (or has raised)
section_with_base(p_head_root, head_total, base, p_changed_files) ==
  IF base.exc # "" THEN base
  ELSE render_changed_files_section(p_head_root, base.val.root, p_changed_files,
                                    pct(head_total), base.val.total_pct)

\* A variant that renders the section whenever a base was requested.
section_when_requested(p_head_root, head_total, p_base_xml, p_base_requested, p_changed_files) ==
  IF p_base_requested
  THEN section_with_base(p_head_root, head_total, base_of(p_base_xml), p_changed_files)
  ELSE Return(<<>>)

\* lines 183-197: the lines the changed-files section adds to markdown_lines
section_of(p_head_root, head_total, p_base_xml, p_base_requested, p_changed_files) ==
  IF p_base_requested /\ strip(p_changed_files) # ""
  THEN section_with_base(p_head_root, head_total, base_of(p_base_xml), p_changed_files)
  ELSE Return(<<>>)

\* lines 199-217: the returned text, from the section and the package rows
markdown_of(section, head_total, packages) ==
  join("\n",
       <<COVERAGE_COMMENT_MARKER>> \o section
         \o <<"", COVERAGE_DETAILS_HEADING, "", "<details>",
              "<summary>Show details</summary>", "",
              "**Total line coverage:** " \o format_2f(pct(head_total), FALSE)
                \o "% (" \o str_of_int(head_total.covered) \o "/"
                \o str_of_int(total(head_total)) \o " lines)",
              "">>
         \o render_package_table(packages)
         \o <<"", "</details>">>)
    \o "\n"

\* lines 199-217, once the section and the package rows are built (or have
\* raised)
rendered_from(section, head_total, packages) ==
  IF section.exc # "" THEN section
  ELSE IF packages.exc # "" THEN packages
  ELSE Return(markdown_of(section.val, head_total, packages.val))

\* lines 181-217, once head_total is known (or has raised)
rendered_with_total(p_head_root, head_total, p_base_xml, p_base_requested, p_changed_files) ==
  IF head_total.exc # "" THEN head_total
  ELSE rendered_from(section_of(p_head_root, head_total.val, p_base_xml,
                                p_base_requested, p_changed_files),
                     head_total.val, package_rows(p_head_root))

\* lines 179-217, from the outcome of ET.fromstring(head_xml)
rendered_with_root(parsed_head, p_base_xml, p_base_requested, p_changed_files) ==
  IF parsed_head.exc # "" THEN parsed_head
  ELSE rendered_with_total(parsed_head.val, line_counts(parsed_head.val), p_base_xml,
                           p_base_requested, p_changed_files)

\* The call render_coverage_markdown(head_xml=..., base_xml=...,
\* base_requested=..., changed_files=...): Return(markdown) or Raise(e).
rendered(p_head_xml, p_base_xml, p_base_requested, p_changed_files) ==
  rendered_with_root(fromstring(p_head_xml), p_base_xml, p_base_requested, p_changed_files)

-----------------------------------------------------------------------------
(* The inputs: coverage reports in the shape the program reads (a report   *)
(* element holding package elements, a package holding sourcefile          *)
(* elements, LINE counters on all three), and changed-files texts.         *)

MaxCount == 2        \* missed and covered range over 0..MaxCount
MaxLines == 2        \* lines of a small changed-files text
MaxExtraRows == 10   \* rows beyond MAX_CHANGED_FILES_ROWS in a long text

Counter(type, missed, covered) ==
  Elem("counter", [type |-> type, missed |-> missed, covered |-> covered], <<>>)

LineCounter(missed, covered) ==
  Counter("LINE", str_of_int(missed), str_of_int(covered))

SourceFile(name, children) == Elem("sourcefile", [name |-> name], children)
Package(name, children) == Elem("package", [name |-> name], children)
Report(children) == Elem("report", [name |-> "app"], children)

Counts == [missed : 0..MaxCount, covered : 0..MaxCount]

\* A head report: A.java carries the counts c, B.java fixed counts, Z.java
\* zero counts, Bare.java no counter, and one sourcefile has no name.
HeadReport(c) ==
  Report(<<
    Package("p", <<
      SourceFile("A.java", <<Counter("BRANCH", "1", "1"),
                             LineCounter(c.missed, c.covered)>>),
      SourceFile("B.java", <<LineCounter(1, 3)>>),
      SourceFile("Z.java", <<LineCounter(0, 0)>>),
      SourceFile("Bare.java", <<>>),
      SourceFile("", <<LineCounter(1, 1)>>),
      LineCounter(c.missed + 1, c.covered + 3)>>),
    Package("", <<SourceFile("Top.java", <<LineCounter(c.covered, c.missed)>>)>>),
    Package("q/r", <<LineCounter(0, 0)>>),
    LineCounter(c.missed, c.covered)>>)

\* A base report: A.java carries the counts c; B.java is not in it.
BaseReport(c) ==
  Report(<<
    Package("p", <<
      SourceFile("A.java", <<LineCounter(c.missed, c.covered)>>),
      SourceFile("Z.java", <<LineCounter(0, 0)>>),
      LineCounter(c.missed, c.covered)>>),
    LineCounter(c.missed, c.covered)>>)

\* Reports with 100 lines in total: 80 covered in the head, 70 in the base.
Head80 ==
  Report(<<
    Package("p", <<
      SourceFile("A.java", <<LineCounter(20, 80)>>),
      SourceFile("B.java", <<LineCounter(1, 3)>>),
      LineCounter(21, 83)>>),
    LineCounter(20, 80)>>)

Base70 ==
  Report(<<
    Package("p", <<
      SourceFile("A.java", <<LineCounter(30, 70)>>),
      LineCounter(30, 70)>>),
    LineCounter(30, 70)>>)

\* Well-formed reports whose LINE counter is not a pair of natural numbers.
BadCounterReport(missed, covered) ==
  Report(<<
    Package("p", <<SourceFile("A.java", <<LineCounter(1, 1)>>), LineCounter(1, 1)>>),
    Counter("LINE", missed, covered)>>)

HeadXmls ==
  {MALFORMED, Xml(Head80), Xml(BadCounterReport("abc", "1")),
   Xml(BadCounterReport("-5", "3"))}
    \cup {Xml(HeadReport(c)) : c \in Counts}

BaseXmls ==
  {None, Some(MALFORMED), Some(Xml(Base70)), Some(Xml(BadCounterReport("1", "x")))}
    \cup {Some(Xml(BaseReport(c))) : c \in Counts}

\* The lines of the small changed-files texts.
SmallLines ==
  {"src/main/java/p/A.java", "./mod/src/test/kotlin/p/B.java", "  src/main/java/p/Z.java ",
   "src/main/java/Top.java", "README.md", "src/main/java/p/Gone.java", "   "}

RECURSIVE TextsOver(_, _)
TextsOver(lines, n) ==
  IF n = 0 THEN {""}
  ELSE TextsOver(lines, n - 1)
         \cup {t \o l \o "\n" : t \in TextsOver(lines, n - 1), l \in lines}

SmallTexts == TextsOver(SmallLines, MaxLines)

FewTexts ==
  {"", " \n\t\n",
   "README.md\nsrc/main/java/p/Z.java\nsrc/main/java/p/Gone.java\n./src/main/java/p/Bare.java",
   "src/main/java/p/B.java\nREADME.md\nsrc/main/java/p/A.java\r\nsrc/main/java/p/Gone.java"}

\* The n-th line of a long text: a path of its own to a file the head
\* reports know, and after every twentieth some lines that map to no row.
LongLine(n) ==
  "m" \o two_digits(n) \o "/src/main/java/p/"
    \o (IF n % 2 = 0 THEN "A" ELSE "B") \o ".java\n"
    \o (IF n % 20 = 0 THEN "README.md\n\nsrc/main/java/p/Gone.java\n" ELSE "")

\* The lines hi, hi - 1, ..., lo: a text in descending order of its paths.
RECURSIVE LongLinesIn(_, _)
LongLinesIn(lo, hi) ==
  IF lo > hi THEN ""
  ELSE IF lo = hi THEN LongLine(lo)
  ELSE LongLinesIn(((lo + hi) \div 2) + 1, hi) \o LongLinesIn(lo, (lo + hi) \div 2)

LongLines(n) == LongLinesIn(1, n)

LongTexts ==
  {LongLines(n) : n \in (MAX_CHANGED_FILES_ROWS - 1)..(MAX_CHANGED_FILES_ROWS + MaxExtraRows)}

-----------------------------------------------------------------------------
(* Spec: one call of render_coverage_markdown.                             *)

InitReports ==
  /\ head_xml \in HeadXmls
  /\ base_xml \in BaseXmls
  /\ base_requested \in BOOLEAN
  /\ changed_files \in FewTexts

InitTexts ==
  /\ head_xml \in {Xml(Head80), Xml(HeadReport(LineCounts(1, 2)))}
  /\ base_xml \in {None, Some(Xml(Base70))}
  /\ base_requested \in BOOLEAN
  /\ changed_files \in SmallTexts

InitLongTexts ==
  /\ head_xml = Xml(Head80)
  /\ base_xml \in {None, Some(Xml(Base70))}
  /\ base_requested = TRUE
  /\ changed_files \in LongTexts

Init ==
  /\ pc = "start"
  /\ call = "render_coverage_markdown"
  /\ InitReports \/ InitTexts \/ InitLongTexts
  /\ arg = None
  /\ ret = None
  /\ exc = ""

\* The call ends: with the value returned or with the exception raised.
Finish(r) ==
  /\ pc' = IF r.exc # "" THEN "raised" ELSE "done"
  /\ exc' = r.exc
  /\ ret' = IF r.exc # "" THEN None ELSE Some(r.val)

render_coverage_markdown ==
  /\ pc = "start"
  /\ call = "render_coverage_markdown"
  /\ Finish(rendered(head_xml, base_xml, base_requested, changed_files))
  /\ UNCHANGED <<call, head_xml, base_xml, base_requested, changed_files, arg>>

Next == render_coverage_markdown

Spec == Init /\ [][Next]_vars

-----------------------------------------------------------------------------
(* SpecPath: one call of changed_path_to_jacoco_key.                       *)

MaxSegments == 2     \* directory segments between a path's prefix and its tail

PathPrefixes == {"", "./", " ./", "../", "/", "mod/"}
PathSegments == {"x/"} \cup {markers[i] : i \in 1..Len(markers)}
PathTails == {"", "p/A.java", "A.kt \n", " B.java"}

RECURSIVE SegmentsOver(_)
SegmentsOver(n) ==
  IF n = 0 THEN {""}
  ELSE SegmentsOver(n - 1) \cup {s \o g : s \in SegmentsOver(n - 1), g \in PathSegments}

Paths ==
  {pre \o s \o t : pre \in PathPrefixes, s \in SegmentsOver(MaxSegments), t \in PathTails}

\* The variables of a call of render_coverage_markdown, in a call of a helper.
NoRender ==
  /\ head_xml = MALFORMED
  /\ base_xml = None
  /\ base_requested = FALSE
  /\ changed_files = ""

InitPath ==
  /\ pc = "start"
  /\ call = "changed_path_to_jacoco_key"
  /\ arg \in Paths
  /\ NoRender
  /\ ret = None
  /\ exc = ""

call_changed_path_to_jacoco_key ==
  /\ pc = "start"
  /\ call = "changed_path_to_jacoco_key"
  /\ Finish(Return(changed_path_to_jacoco_key(arg)))
  /\ UNCHANGED <<call, head_xml, base_xml, base_requested, changed_files, arg>>

NextPath == call_changed_path_to_jacoco_key

SpecPath == InitPath /\ [][NextPath]_vars

PathDone == pc = "done" /\ call = "changed_path_to_jacoco_key"

\* The path without surrounding whitespace and leading '.' and '/'.
Normalized(path) == lstrip(strip(path), {".", "/"})

\* The 0-based positions at which sub occurs in s.
Positions(s, sub) ==
  {k \in 0..(Len(s) - Len(sub)) : SubSeq(s, k + 1, k + Len(sub)) = sub}

Min(S) == CHOOSE x \in S : \A y \in S : x <= y

MarkerPositions(s) == UNION {Positions(s, markers[i]) : i \in 1..Len(markers)}

\* The marker that occurs at the leftmost position, and the one that comes
\* first in the list among those that occur.
LeftmostMarker(s) ==
  CHOOSE i \in 1..Len(markers) : Min(MarkerPositions(s)) \in Positions(s, markers[i])

FirstListedMarker(s) == Min({i \in 1..Len(markers) : Positions(s, markers[i]) # {}})

\* Everything after the leftmost occurrence of markers[i] in s.
KeyAfter(s, i) == Some(SliceFrom(s, Min(Positions(s, markers[i])) + Len(markers[i])))

LeftmostKey(s) ==
  IF MarkerPositions(s) = {} THEN None ELSE KeyAfter(s, LeftmostMarker(s))

FirstListedKey(s) ==
  IF MarkerPositions(s) = {} THEN None ELSE KeyAfter(s, FirstListedMarker(s))

\* C9, as claimed: the key is everything after the marker occurrence at the
\* leftmost position of the normalized path; a path without a marker has no
\* key.
C9_LeftmostOccurrenceWins ==
  PathDone => ret.val = LeftmostKey(Normalized(arg))

\* C9, amended: the key is everything after the leftmost occurrence of the
\* marker that comes first in the list (src/main/java/, src/main/kotlin/,
\* src/test/java/, src/test/kotlin/) among the markers that occur in the
\* normalized path; a path without a marker, or empty once normalized, has
\* no key.
C9_FirstListedMarkerWins ==
  PathDone => ret.val = FirstListedKey(Normalized(arg))

\* A path in which a marker listed later occurs left of the one listed first.
C9_Witness ==
  /\ PathDone
  /\ MarkerPositions(Normalized(arg)) # {}
  /\ LeftmostMarker(Normalized(arg)) # FirstListedMarker(Normalized(arg))
  /\ ~ret.val.none

\* C3, as claimed: whenever a key k is returned, the function applied to
\* './' + k returns k again.
C3_KeyMapsToItself ==
  (PathDone /\ ~ret.val.none) =>
    changed_path_to_jacoco_key("./" \o ret.val.val) = Some(ret.val.val)

\* C3, amended: a './' in front of a path does not change what the path maps
\* to, and a returned key k is mapped to itself once it is put under a
\* source root again ('./src/main/java/' + k); './' + k alone never maps to
\* k.
C3_PrefixKeepsKey ==
  PathDone =>
    /\ changed_path_to_jacoco_key("./" \o arg) = ret.val
    /\ ~ret.val.none =>
         /\ changed_path_to_jacoco_key("./src/main/java/" \o ret.val.val) = ret.val
         /\ changed_path_to_jacoco_key("./" \o ret.val.val) # ret.val

\* A path with surrounding whitespace and a leading './' that has a key.
C3_Witness ==
  /\ PathDone
  /\ ~ret.val.none
  /\ ret.val.val # ""
  /\ Normalized(arg) # arg

-----------------------------------------------------------------------------
(* SpecCounter: one call of line_counts on a report node.                  *)

\* The values of a counter's missed and covered attributes.
AttrValues == {"", "0", "7", " 3 ", "+2", "1_0", "-5", "abc", "1.5"}

\* LINE counters with both attributes, with one of them, and with neither.
LineCounters ==
  {Counter("LINE", m, c) : m \in AttrValues, c \in AttrValues}
    \cup {Elem("counter", [type |-> "LINE", covered |-> c], <<>>) : c \in AttrValues}
    \cup {Elem("counter", [type |-> "LINE", missed |-> m], <<>>) : m \in AttrValues}
    \cup {Elem("counter", [type |-> "LINE"], <<>>)}

\* Nodes without a LINE counter, and nodes whose first LINE counter is l.
CounterNodes ==
  {SourceFile("A.java", <<>>),
   SourceFile("A.java", <<Counter("BRANCH", "1", "1")>>),
   SourceFile("A.java", <<Elem("counter", [missed |-> "1", covered |-> "1"], <<>>)>>)}
    \cup {SourceFile("A.java", <<l>>) : l \in LineCounters}
    \cup {SourceFile("A.java", <<Counter("BRANCH", "x", "1"), l, LineCounter(1, 1)>>) :
            l \in LineCounters}

InitCounter ==
  /\ pc = "start"
  /\ call = "line_counts"
  /\ arg \in CounterNodes
  /\ NoRender
  /\ ret = None
  /\ exc = ""

call_line_counts ==
  /\ pc = "start"
  /\ call = "line_counts"
  /\ Finish(line_counts(arg))
  /\ UNCHANGED <<call, head_xml, base_xml, base_requested, changed_files, arg>>

NextCounter == call_line_counts

SpecCounter == InitCounter /\ [][NextCounter]_vars

\* 0.0 <= x <= 100.0
InPercentRange(x) == float_ge_zero(x) /\ x.num <= 100 * x.den

\* C2, as claimed: line_counts raises on no node, and the counts it returns
\* are non-negative with a percent in [0, 100].
C2_LineCountsNeverFails ==
  call = "line_counts" =>
    /\ pc # "raised"
    /\ pc = "done" =>
         /\ ret.val.missed >= 0
         /\ ret.val.covered >= 0
         /\ InPercentRange(pct(ret.val))

-----------------------------------------------------------------------------
(* SpecPackages: one call of package_rows on a report.                     *)

MaxPackages == 2     \* package elements of a report

PackageNames == {"p", "a/b", "a.b", ""}

PackageChildren ==
  {<<>>, <<LineCounter(0, 0)>>, <<LineCounter(1, 1)>>, <<LineCounter(0, 3)>>,
   <<Counter("LINE", "x", "1")>>}

PackageElems == {Package(n, c) : n \in PackageNames, c \in PackageChildren}

RECURSIVE PackagesOver(_)
PackagesOver(n) ==
  IF n = 0 THEN {<<>>}
  ELSE PackagesOver(n - 1)
         \cup {Append(ps, pkg) : ps \in PackagesOver(n - 1), pkg \in PackageElems}

PackageReports == {Report(ps \o <<LineCounter(1, 1)>>) : ps \in PackagesOver(MaxPackages)}

InitPackages ==
  /\ pc = "start"
  /\ call = "package_rows"
  /\ arg \in PackageReports
  /\ NoRender
  /\ ret = None
  /\ exc = ""

call_package_rows ==
  /\ pc = "start"
  /\ call = "package_rows"
  /\ Finish(package_rows(arg))
  /\ UNCHANGED <<call, head_xml, base_xml, base_requested, changed_files, arg>>

NextPackages == call_package_rows

SpecPackages == InitPackages /\ [][NextPackages]_vars

PackagesDone == pc = "done" /\ call = "package_rows"

\* The package elements of the report, and those with lines to cover.
PackagesOf(root) == findall(root, "package")

CountedPackages(root) ==
  {i \in 1..Len(PackagesOf(root)) : total(line_counts(PackagesOf(root)[i]).val) > 0}

\* The row of the i-th package: dotted name, percent, covered, total.
PackageRow(root, i) ==
  <<replace(get_or_empty(PackagesOf(root)[i], "name"), "/", "."),
    pct(line_counts(PackagesOf(root)[i]).val),
    line_counts(PackagesOf(root)[i]).val.covered,
    total(line_counts(PackagesOf(root)[i]).val)>>

\* No row has total 0, and the rows are those of the packages with a total
\* above 0, one row each.
RowsOfCountedPackages(root, rows) ==
  /\ \A j \in 1..Len(rows) : rows[j][4] # 0
  /\ Len(rows) = Cardinality(CountedPackages(root))
  /\ \A i \in CountedPackages(root) :
       Cardinality({j \in 1..Len(rows) : rows[j] = PackageRow(root, i)})
         = Cardinality({k \in CountedPackages(root) :
                          PackageRow(root, k) = PackageRow(root, i)})

StrictlyAscending(rows) ==
  \A j \in 1..(Len(rows) - 1) : str_lt(rows[j][1], rows[j + 1][1])

Ascending(rows) ==
  \A j \in 1..(Len(rows) - 1) : ~str_lt(rows[j + 1][1], rows[j][1])

DistinctNames(root) ==
  \A i, k \in CountedPackages(root) :
    i # k => PackageRow(root, i)[1] # PackageRow(root, k)[1]

\* C6, as claimed: no row for a package with total 0, one row for every
\* package with a total above 0, and the rows strictly ascending by dotted
\* name.
C6_RowsStrictlyAscending ==
  PackagesDone => RowsOfCountedPackages(arg, ret.val) /\ StrictlyAscending(ret.val)

\* C6, amended: no row for a package with total 0, one row for every package
\* with a total above 0, and the rows ascending by dotted name: no row is
\* followed by one with a smaller name, and adjacent names are equal only
\* when two counted packages have the same dotted name.
C6_RowsAscending ==
  PackagesDone =>
    /\ RowsOfCountedPackages(arg, ret.val)
    /\ Ascending(ret.val)
    /\ DistinctNames(arg) => StrictlyAscending(ret.val)

\* Two counted packages whose names differ and whose dotted names are equal.
C6_Witness ==
  /\ PackagesDone
  /\ Len(ret.val) = 2
  /\ ret.val[1][1] = ret.val[2][1]
  /\ get_or_empty(PackagesOf(arg)[1], "name") # get_or_empty(PackagesOf(arg)[2], "name")

-----------------------------------------------------------------------------
(* Properties of render_coverage_markdown, under Spec.                     *)

RenderDone == pc = "done" /\ call = "render_coverage_markdown"

\* Reading the returned markdown.

StartsWith(s, prefix) ==
  Len(s) >= Len(prefix) /\ SubSeq(s, 1, Len(prefix)) = prefix

\* The index of the first line equal to l, or 0.
IndexIn(lines, l) ==
  IF \E i \in 1..Len(lines) : lines[i] = l
  THEN CHOOSE i \in 1..Len(lines) : lines[i] = l /\ \A j \in 1..(i - 1) : lines[j] # l
  ELSE 0

HasSection(lines) == IndexIn(lines, CHANGED_FILES_HEADING) # 0

\* The rows of the changed-files table: the lines after its two header lines
\* and before the coverage details.
FileRowsFrom(lines, header, details) ==
  IF header = 0 THEN <<>>
  ELSE SelectSeq(SubSeq(lines, header + 2, details - 1),
                 LAMBDA l : StartsWith(l, "| " \o BACKTICK))

FileRows(lines) ==
  FileRowsFrom(lines, IndexIn(lines, "| File | Line coverage |"),
               IndexIn(lines, COVERAGE_DETAILS_HEADING))

TotalLines(lines) == SelectSeq(lines, LAMBDA l : StartsWith(l, "Total coverage: "))

Notices(lines) == SelectSeq(lines, LAMBDA l : StartsWith(l, "_Table truncated: "))

\* Reading the inputs.

NonBlank(text) == \E i \in 1..Len(text) : Char(text, i) \notin WHITESPACE

\* The keys of the file index of a report: one for every sourcefile element
\* with a non-empty name inside a package element.
IndexedKeysOf(pkg) ==
  {file_key(get_or_empty(pkg, "name"), get_or_empty(f, "name")) :
     f \in {c \in {pkg.children[i] : i \in 1..Len(pkg.children)} :
              c.tag = "sourcefile" /\ get_or_empty(c, "name") # ""}}

IndexedKeys(root) ==
  UNION {IndexedKeysOf(pkg) :
           pkg \in {c \in {root.children[i] : i \in 1..Len(root.children)} :
                      c.tag = "package"}}

\* The changed paths that map to a key of the index, in the order of the
\* text.
SurvivingIn(paths, keys) ==
  SelectSeq(paths, LAMBDA path : /\ FirstListedKey(Normalized(path)) # None
                                 /\ FirstListedKey(Normalized(path)).val \in keys)

Surviving == SurvivingIn(changed_of(changed_files), IndexedKeys(head_xml.root))

SectionExpected == base_requested /\ NonBlank(changed_files)

\* The lines have the section, with its one total line, exactly when it is
\* expected, and neither rows nor a notice without it.
C5_SectionHolds(lines) ==
  /\ HasSection(lines) <=> SectionExpected
  /\ Len(TotalLines(lines)) = (IF SectionExpected THEN 1 ELSE 0)
  /\ ~SectionExpected => FileRows(lines) = <<>> /\ Notices(lines) = <<>>

\* C5: the returned markdown has the changed-files section exactly when a
\* base was requested and the changed-files text has a character that is
\* not whitespace; the section then has its heading and its total line, with
\* or without rows and with or without a base.
C5_SectionIffRequestedAndNonBlank ==
  RenderDone => C5_SectionHolds(splitlines(ret.val))

\* A section without a base and without rows.
C5_Witness ==
  /\ RenderDone
  /\ base_requested
  /\ base_xml = None
  /\ Len(changed_of(changed_files)) > 0
  /\ Len(Surviving) = 0
  /\ HasSection(splitlines(ret.val))
  /\ FileRows(splitlines(ret.val)) = <<>>

\* The table has min(n, 50) rows, and the notice of n - 50 omitted files
\* exactly when n > 50.
C4_CapHolds(lines, n) ==
  /\ Len(FileRows(lines)) = (IF n > MAX_CHANGED_FILES_ROWS THEN MAX_CHANGED_FILES_ROWS ELSE n)
  /\ Notices(lines) =
       (IF n > MAX_CHANGED_FILES_ROWS
        THEN <<"_Table truncated: " \o str_of_nat(n - MAX_CHANGED_FILES_ROWS)
                 \o " more files omitted._">>
        ELSE <<>>)

\* C4: with n changed paths that map to a key of the head index, the table
\* has min(n, 50) rows, and a truncation notice stating n - 50 omitted files
\* exactly when n > 50.
C4_AtMostFiftyRows ==
  (RenderDone /\ SectionExpected) => C4_CapHolds(splitlines(ret.val), Len(Surviving))

\* 60 rows to show: 50 shown, and 10 more files omitted.
C4_Witness ==
  /\ RenderDone
  /\ Len(Surviving) = 60
  /\ Len(FileRows(splitlines(ret.val))) = 50
  /\ Notices(splitlines(ret.val)) = <<"_Table truncated: 10 more files omitted._">>

\* The path and the coverage label of a row of the changed-files table.
RowPath(row) == SubSeq(row, 4, find(row, BACKTICK \o " | "))

RowLabel(row) == SubSeq(row, find(row, BACKTICK \o " | ") + 5, Len(row) - 2)

Range(seq) == {seq[i] : i \in 1..Len(seq)}

\* The sourcefile elements of a report with a non-empty name that have no
\* LINE counter, or a LINE counter of no lines, by key.
IsLineCounter(c) == c.tag = "counter" /\ get(c, "type") = Some("LINE")

HasNoLines(f) ==
  \A i \in 1..Len(f.children) :
    IsLineCounter(f.children[i]) =>
      /\ get_or_empty(f.children[i], "missed") \in {"", "0"}
      /\ get_or_empty(f.children[i], "covered") \in {"", "0"}

KeysWithoutLinesOf(pkg) ==
  {file_key(get_or_empty(pkg, "name"), get_or_empty(f, "name")) :
     f \in {c \in Range(pkg.children) :
              c.tag = "sourcefile" /\ get_or_empty(c, "name") # "" /\ HasNoLines(c)}}

KeysWithoutLines(root) ==
  UNION {KeysWithoutLinesOf(pkg) : pkg \in {c \in Range(root.children) : c.tag = "package"}}

\* A path that maps to a key of the head index and is in the section.
KNOWN_PATH == "src/main/java/p/A.java"

\* The paths of the rows are among the surviving paths, all of them when
\* they are at most 50, and the row of a file without lines shows 0.00%.
C7_RowsHold(rows, surviving, keys_without_lines) ==
  /\ {RowPath(rows[i]) : i \in 1..Len(rows)} \subseteq Range(surviving)
  /\ Len(surviving) <= MAX_CHANGED_FILES_ROWS =>
       /\ Range(surviving) \subseteq {RowPath(rows[i]) : i \in 1..Len(rows)}
       /\ Len(rows) = Len(surviving)
  /\ \A i \in 1..Len(rows) :
       FirstListedKey(Normalized(RowPath(rows[i]))).val \in keys_without_lines
         => StartsWith(RowLabel(rows[i]), "0.00% (")

\* C7: the paths of the rows are the changed paths that map to a key of the
\* head index (all of them when they are at most 50, none other ever); the
\* row of a file of the index without lines shows 0.00%; a path without a
\* marker or with a key outside the index has no row and raises nothing:
\* the call raises exactly as it does for one known path.
C7_RowIffKeyInHeadIndex ==
  /\ (RenderDone /\ SectionExpected) =>
       C7_RowsHold(FileRows(splitlines(ret.val)), Surviving, KeysWithoutLines(head_xml.root))
  /\ (call = "render_coverage_markdown" /\ pc # "start" /\ NonBlank(changed_files)) =>
       exc = rendered(head_xml, base_xml, base_requested, KNOWN_PATH).exc

\* Four changed paths: one without a marker, one with a key that is not in
\* the head index, and two of files without lines, which have the two rows.
C7_Witness ==
  /\ RenderDone
  /\ SectionExpected
  /\ Len(changed_of(changed_files)) = 4
  /\ "README.md" \in Range(changed_of(changed_files))
  /\ Len(Surviving) = 2
  /\ Len(FileRows(splitlines(ret.val))) = 2
  /\ \A i \in 1..2 : StartsWith(RowLabel(FileRows(splitlines(ret.val))[i]), "0.00% (")

\* The lines of a text in another order: reversed, rotated by one, and with
\* the first two exchanged.
ReversedLines(lines) == [i \in 1..Len(lines) |-> lines[Len(lines) + 1 - i]]

RotatedLines(lines) == IF lines = <<>> THEN lines ELSE Append(Tail(lines), Head(lines))

SwappedLines(lines) ==
  IF Len(lines) < 2 THEN lines ELSE <<lines[2], lines[1]>> \o SubSeq(lines, 3, Len(lines))

PermutedFrom(lines) ==
  {join("\n", ReversedLines(lines)), join("\n", RotatedLines(lines)),
   join("\n", SwappedLines(lines))}

Permuted(text) == PermutedFrom(splitlines(text))

\* The rows are in ascending order of their paths, and no changed path left
\* out of the table is smaller than a path in it.
C10_OrderHolds(rows, surviving) ==
  /\ \A i \in 1..(Len(rows) - 1) : ~str_lt(RowPath(rows[i + 1]), RowPath(rows[i]))
  /\ \A q \in Range(surviving) \ {RowPath(rows[i]) : i \in 1..Len(rows)} :
       \A i \in 1..Len(rows) : ~str_lt(q, RowPath(rows[i]))

\* C10: the rows are in ascending order of the original changed paths, the
\* rows kept by the cap are those of the smallest paths, and a text with the
\* same lines in another order gives the same markdown.
C10_SortedBeforeCap ==
  RenderDone =>
    /\ SectionExpected => C10_OrderHolds(FileRows(splitlines(ret.val)), Surviving)
    /\ \A text \in Permuted(changed_files) :
         rendered(head_xml, base_xml, base_requested, text) = Return(ret.val)

\* More than 50 paths in descending order: the table starts with the last
\* path of the text and leaves out the first.
C10_Witness ==
  /\ RenderDone
  /\ Len(Surviving) > MAX_CHANGED_FILES_ROWS
  /\ str_lt(Surviving[Len(Surviving)], Surviving[1])
  /\ Len(FileRows(splitlines(ret.val))) = MAX_CHANGED_FILES_ROWS
  /\ RowPath(FileRows(splitlines(ret.val))[1]) = Surviving[Len(Surviving)]
  /\ Surviving[1] \notin {RowPath(r) : r \in Range(FileRows(splitlines(ret.val)))}

\* C1, as claimed: with a valid head report, a base requested, a non-blank
\* changed-files text and a base XML that cannot be parsed, the call raises
\* nothing and returns what it returns when base_xml is absent.
C1_UnparsableBaseIsNoBase ==
  (/\ call = "render_coverage_markdown"
   /\ pc # "start"
   /\ base_requested
   /\ base_xml = Some(MALFORMED)
   /\ NonBlank(changed_files)
   /\ rendered(head_xml, None, base_requested, changed_files).exc = "")
    => /\ pc = "done"
       /\ Return(ret.val) = rendered(head_xml, None, base_requested, changed_files)

\* Percents as fractions of integers, <<numerator, denominator>> with a
\* positive denominator: the percent of counts, and head minus base.
PercentOf(counts) ==
  IF total(counts) = 0 THEN <<0, 1>>
  ELSE IF total(counts) > 0 THEN <<100 * counts.covered, total(counts)>>
  ELSE <<-100 * counts.covered, -total(counts)>>

Minus(x, y) == <<x[1] * y[2] - y[1] * x[2], x[2] * y[2]>>

Abs(n) == IF n < 0 THEN -n ELSE n

\* The number a string of decimal digits denotes.
RECURSIVE NatOf(_)
NatOf(digits) ==
  IF digits = "" THEN 0
  ELSE 10 * NatOf(SubSeq(digits, 1, Len(digits) - 1))
         + (CHOOSE d \in 0..9 : Char(DIGITS, d + 1) = Char(digits, Len(digits)))

\* body is digits, a point and two digits, and is x rounded to hundredths.
IsRounded(body, x) ==
  /\ Len(body) >= 4
  /\ Char(body, Len(body) - 2) = "."
  /\ \A i \in (1..Len(body)) \ {Len(body) - 2} : Char(body, i) \in DIGIT_CHARS
  /\ Abs(200 * Abs(x[1])
           - 2 * x[2] * NatOf(SubSeq(body, 1, Len(body) - 3)
                                \o SubSeq(body, Len(body) - 1, Len(body))))
       <= x[2]

\* text shows x with two decimals: '-' in front of a negative x, and with
\* signed, '+' in front of any other (or '-' in front of a zero).
ShowsPercent(text, x, signed) ==
  /\ text # ""
  /\ x[1] < 0 => Char(text, 1) = "-"
  /\ x[1] > 0 => Char(text, 1) = (IF signed THEN "+" ELSE Char(text, 1)) /\ Char(text, 1) # "-"
  /\ (x[1] = 0 /\ signed) => Char(text, 1) \in {"+", "-"}
  /\ IsRounded(IF Char(text, 1) \in {"+", "-"} THEN SliceFrom(text, 1) ELSE text, x)

\* what stands in the parentheses of a label shows the delta: the green
\* indicator exactly when delta >= 0, the red one otherwise, then the
\* signed delta and '%'.
ShowsDelta(shown, delta) ==
  IF delta[1] >= 0
  THEN /\ StartsWith(shown, GREEN_CIRCLE \o " ")
       /\ Char(shown, Len(shown)) = "%"
       /\ ShowsPercent(SubSeq(shown, Len(GREEN_CIRCLE) + 2, Len(shown) - 1), delta, TRUE)
  ELSE /\ StartsWith(shown, RED_CIRCLE \o " ")
       /\ Char(shown, Len(shown)) = "%"
       /\ ShowsPercent(SubSeq(shown, Len(RED_CIRCLE) + 2, Len(shown) - 1), delta, TRUE)

\* label is '<head percent>% (<delta>)'; base is None or Some(counts)
ShowsCoverage(label, head, base) ==
  /\ find(label, "% (") > 0
  /\ Char(label, Len(label)) = ")"
  /\ ShowsPercent(SubSeq(label, 1, find(label, "% (")), PercentOf(head), FALSE)
  /\ IF base = None
     THEN SubSeq(label, find(label, "% (") + 4, Len(label) - 1) = "n/a"
     ELSE ShowsDelta(SubSeq(label, find(label, "% (") + 4, Len(label) - 1),
                     Minus(PercentOf(head), PercentOf(base.val)))

\* The sourcefile element of a report with the given key.
FileOf(root, key) ==
  CHOOSE f \in UNION {{<<get_or_empty(pkg, "name"), c>> :
                         c \in {c \in Range(pkg.children) : c.tag = "sourcefile"}} :
                      pkg \in {c \in Range(root.children) : c.tag = "package"}} :
    get_or_empty(f[2], "name") # "" /\ file_key(f[1], get_or_empty(f[2], "name")) = key

\* The counts of the base for a key: None without a base or without the key.
BaseCountsOf(key) ==
  IF base_xml = None THEN None
  ELSE IF key \notin IndexedKeys(base_xml.val.root) THEN None
  ELSE Some(line_counts(FileOf(base_xml.val.root, key)[2]).val)

RowShowsCoverage(row) ==
  ShowsCoverage(RowLabel(row),
                line_counts(FileOf(head_xml.root,
                                   FirstListedKey(Normalized(RowPath(row))).val)[2]).val,
                BaseCountsOf(FirstListedKey(Normalized(RowPath(row))).val))

\* The total line and every row show the coverage and the delta of their
\* counts; 80 of 100 lines against 70 of 100 show +10.00% as positive.
C8_DeltasHold(lines) ==
  /\ ShowsCoverage(SliceFrom(TotalLines(lines)[1], Len("Total coverage: ")),
                   line_counts(head_xml.root).val,
                   IF base_xml = None THEN None
                   ELSE Some(line_counts(base_xml.val.root).val))
  /\ \A i \in 1..Len(FileRows(lines)) : RowShowsCoverage(FileRows(lines)[i])
  /\ (head_xml = Xml(Head80) /\ base_xml = Some(Xml(Base70))) =>
       TotalLines(lines) = <<"Total coverage: 80.00% (" \o GREEN_CIRCLE \o " +10.00%)">>

\* C8: where a base value exists, the total line and each row show the
\* delta head percent - base percent with two decimals and its sign, behind
\* the positive indicator exactly when the delta is >= 0 and behind the
\* negative one otherwise (80/100 against 70/100: +10.00%, positive); where
\* none exists they show n/a and no indicator.
C8_IndicatorFollowsDelta ==
  (RenderDone /\ SectionExpected) => C8_DeltasHold(splitlines(ret.val))

\* 80 of 100 lines against 70 of 100, with a row of a file the base knows and
\* a row of a file it does not know.
C8_Witness ==
  /\ RenderDone
  /\ SectionExpected
  /\ head_xml = Xml(Head80)
  /\ base_xml = Some(Xml(Base70))
  /\ find(TotalLines(splitlines(ret.val))[1], GREEN_CIRCLE \o " +10.00%") # -1
  /\ \E i \in 1..Len(FileRows(splitlines(ret.val))) :
       find(FileRows(splitlines(ret.val))[i], GREEN_CIRCLE) # -1
  /\ \E i \in 1..Len(FileRows(splitlines(ret.val))) :
       find(FileRows(splitlines(ret.val))[i], "(n/a)") # -1

====
